---- MODULE Spec2Model ----
(***************************************************************************)
(* Model of components/builder-api/src/http/handlers.rs: the HTTP handlers *)
(* of the builder API.  Every handler is a short pipeline: extract the     *)
(* inputs, call the external source-control API and/or the broker, render  *)
(* the first failure or the final success.                                 *)
(*                                                                         *)
(* Optional values (Rust Option / Result) are sequences of length <= 1:    *)
(* <<>> is None / Err, <<v>> is Some(v) / Ok(v).                           *)
(***************************************************************************)
EXTENDS Integers, Sequences, FiniteSets, TLC

\* Bounds of the model.
NumReqs == 2          \* request slots of the server
MaxIdLen == 2         \* longest path parameter, in characters
MaxEmails == 2        \* longest e-mail list the external API returns

Reqs == 1..NumReqs

(***************************************************************************)
(* iron::status codes used by the handlers.                                *)
(***************************************************************************)
StatusOk == 200
Created == 201
NoContent == 204
BadRequest == 400
Unauthorized == 401
NotFound == 404
RequestTimeout == 408
Conflict == 409
InternalServerError == 500
BadGateway == 502
ServiceUnavailable == 503

(***************************************************************************)
(* protocol::net::ErrCode values the handlers name, and the NetErrors a    *)
(* broker call can fail with.                                              *)
(***************************************************************************)
ErrCodes == {"BUG", "TIMEOUT", "REMOTE_REJECTED", "BAD_REMOTE_REPLY", "ENTITY_NOT_FOUND",
             "NO_SHARD", "ACCESS_DENIED", "SESSION_EXPIRED", "ENTITY_CONFLICT"}

\* net::err(code, msg)
NetErr(code, msg) == [code |-> code, msg |-> msg]

BackendErrors == {NetErr(c, "backend") : c \in ErrCodes}

(***************************************************************************)
(* Request inputs.                                                         *)
(***************************************************************************)
Handlers == {"session_create", "job_create", "job_show", "status",
             "list_account_invitations", "list_user_origins", "accept_invitation",
             "project_create", "project_delete", "project_update", "project_show"}

\* The session the Authenticated middleware attached, if any.
Sessions == {[id |-> 1, token |-> "tokA"], [id |-> 2, token |-> "tokB"]}
SessionOpts == {<<>>} \cup {<<s>> : s \in Sessions}

\* Path parameters are strings, modelled as sequences of characters; the
\* router matches a parameter against a segment of at least one character.
Chars == {"1", "2", "a", "+"}
Strings == UNION {[1..n -> Chars] : n \in 1..MaxIdLen}
ParamOpts == {<<>>} \cup {<<s>> : s \in Strings}

Digits == {"0", "1", "2", "3", "4", "5", "6", "7", "8", "9"}

DigitVal(c) ==
  CASE c = "0" -> 0 [] c = "1" -> 1 [] c = "2" -> 2 [] c = "3" -> 3 [] c = "4" -> 4
    [] c = "5" -> 5 [] c = "6" -> 6 [] c = "7" -> 7 [] c = "8" -> 8 [] c = "9" -> 9

RECURSIVE ParseDigits(_, _)
ParseDigits(s, acc) ==
  IF s = <<>> THEN <<acc>>
  ELSE IF Head(s) \in Digits THEN ParseDigits(Tail(s), acc * 10 + DigitVal(Head(s)))
  ELSE <<>>

\* parse::<u64>() with the error replaced by a default: unwrap_or(0)
ParseU64_or_zero(s) ==
  LET d == IF s # <<>> /\ Head(s) = "+" THEN Tail(s) ELSE s
  IN  IF d = <<>> \/ ParseDigits(d, 0) = <<>> THEN <<0>> ELSE ParseDigits(d, 0)

\* str::parse::<u64>(): an optional leading '+', then one or more decimal
\* digits; anything else is Err.  (Values here stay far below 2^64.)
ParseU64(s) ==
  IF s = <<>> THEN <<>>
  ELSE LET d == IF Head(s) = "+" THEN Tail(s) ELSE s
       IN  IF d = <<>> THEN <<>> ELSE ParseDigits(d, 0)

\* str::parse::<String>(): never fails.
ParseString(s) == <<s>>

(***************************************************************************)
(* JSON bodies as bodyparser::Json yields them.                            *)
(***************************************************************************)
JNumber == [t |-> "number"]
JString(s) == [t |-> "string", s |-> s]
JArray == [t |-> "array"]
JObject(m) == [t |-> "object", m |-> m]

\* objects over a set of keys: every subset of the keys, each present key
\* holding a number or one of its strings
ObjectsOver(keys, vals) ==
  UNION {[S -> vals] : S \in SUBSET keys}

\* Value::find(key): Some(value) on an object that has the key.
Find(v, key) ==
  IF v.t = "object" THEN (IF key \in DOMAIN v.m THEN <<v.m[key]>> ELSE <<>>) ELSE <<>>

BodyErr == [res |-> "err"]
BodyNone == [res |-> "none"]
BodySome(v) == [res |-> "some", val |-> v]

JobBodies ==
  {BodyErr, BodyNone, BodySome(JArray)}
    \cup {BodySome(JObject(m)) :
            m \in ObjectsOver({"project_id"}, {JNumber, JString("core/web")})}

GithubValues ==
  {JString("acme/web")}
    \cup {JObject(m) : m \in ObjectsOver({"organization", "repo"}, {JNumber, JString("acme")})}

ProjectBodies ==
  {BodyErr, BodyNone, BodySome(JArray)}
    \cup {BodySome(JObject(m)) :
            m \in UNION {{f \in [S -> {JNumber, JString("core")} \cup GithubValues] :
                            /\ \A k \in S \cap {"origin", "plan_path"} :
                                 f[k] \in {JNumber, JString("core")}
                            /\ \A k \in S \cap {"github"} : f[k] \in GithubValues} :
                         S \in SUBSET {"origin", "plan_path", "github"}}}

(***************************************************************************)
(* Responses.                                                              *)
(***************************************************************************)
\* Response::with(status)
ResponseWith(status) == [status |-> status, body |-> [kind |-> "empty"], headers |-> <<>>]

\* Response::with((status, text))
ResponseWithText(status, text) ==
  [status |-> status, body |-> [kind |-> "text", text |-> text], headers |-> <<>>]

\* json::encode(&response.to_json())
JsonEncode(v) == [kind |-> "json", val |-> v]

render_json(status, response) ==
  [status |-> status, body |-> JsonEncode(response), headers |-> <<"application/json">>]

\* render_net_error with the TIMEOUT arm lost: the code falls to the default
render_net_error_no_timeout(err) ==
  LET status == CASE err.code = "ENTITY_NOT_FOUND" -> NotFound
                  [] err.code = "ENTITY_CONFLICT" -> Conflict
                  [] err.code = "NO_SHARD" -> ServiceUnavailable
                  [] err.code = "BAD_REMOTE_REPLY" -> BadGateway
                  [] err.code = "SESSION_EXPIRED" -> Unauthorized
                  [] OTHER -> InternalServerError
  IN  render_json(status, err)

render_net_error(err) ==
  LET status == CASE err.code = "ENTITY_NOT_FOUND" -> NotFound
                  [] err.code = "ENTITY_CONFLICT" -> Conflict
                  [] err.code = "NO_SHARD" -> ServiceUnavailable
                  [] err.code = "TIMEOUT" -> RequestTimeout
                  [] err.code = "BAD_REMOTE_REPLY" -> BadGateway
                  [] err.code = "SESSION_EXPIRED" -> Unauthorized
                  [] OTHER -> InternalServerError
  IN  render_json(status, err)

(***************************************************************************)
(* State: one record of handler state per request slot.                    *)
(***************************************************************************)
VARIABLES
  handler,    \* the route's handler, "idle" when the slot holds no request
  session,    \* req.extensions.get::<Authenticated>()
  param,      \* the path parameter the handler looks up (id, invitation_id, code)
  body,       \* req.get::<bodyparser::Json>()
  pc,         \* position of the handler
  local,      \* the handler's local variables
  conn,       \* the broker connection: "none", "held", "dropped"
  connects,   \* number of Broker::connect calls made
  brokerLog,  \* messages routed through the broker, in order
  extLog,     \* calls made to the external source-control API, in order
  steps,      \* the fallible steps executed so far, with their results
  outcome     \* the Response returned, if any

vars == <<handler, session, param, body, pc, local, conn, connects, brokerLog, extLog,
          steps, outcome>>

NoLocals ==
  [code |-> <<>>, token |-> <<>>, user |-> <<>>, email |-> <<>>, id |-> <<>>,
   request |-> <<>>, project |-> <<>>, origin_get |-> <<>>, origin |-> <<>>,
   organization |-> <<>>, repo |-> <<>>, reply |-> <<>>, err |-> <<>>]

Init ==
  /\ handler = [r \in Reqs |-> "idle"]
  /\ session = [r \in Reqs |-> <<>>]
  /\ param = [r \in Reqs |-> <<>>]
  /\ body = [r \in Reqs |-> BodyNone]
  /\ pc = [r \in Reqs |-> "idle"]
  /\ local = [r \in Reqs |-> NoLocals]
  /\ conn = [r \in Reqs |-> "none"]
  /\ connects = [r \in Reqs |-> 0]
  /\ brokerLog = [r \in Reqs |-> <<>>]
  /\ extLog = [r \in Reqs |-> <<>>]
  /\ steps = [r \in Reqs |-> <<>>]
  /\ outcome = [r \in Reqs |-> <<>>]

\* The handlers that read a path parameter / a JSON body.
ParamHandlers == {"session_create", "job_show", "accept_invitation", "project_delete",
                  "project_update", "project_show"}

BodiesOf(h) ==
  CASE h = "job_create" -> JobBodies
    [] h = "project_create" -> ProjectBodies
    [] OTHER -> {BodyNone}

\* The router hands a request to its handler.  The server takes the next
\* request of this model once the previous one has been answered.
Receive(r) ==
  /\ \A q \in Reqs : pc[q] = "idle"
  /\ \E h \in Handlers, s \in SessionOpts, p \in ParamOpts :
       /\ h \notin ParamHandlers => p = <<>>
       /\ \E b \in BodiesOf(h) :
            /\ handler' = [handler EXCEPT ![r] = h]
            /\ session' = [session EXCEPT ![r] = s]
            /\ param' = [param EXCEPT ![r] = p]
            /\ body' = [body EXCEPT ![r] = b]
  /\ pc' = [pc EXCEPT ![r] = "start"]
  /\ UNCHANGED <<local, conn, connects, brokerLog, extLog, steps, outcome>>

\* The response (or the unwinding) has left the server; the slot is free.
Reply(r) ==
  /\ pc[r] \in {"done", "panicked"}
  /\ handler' = [handler EXCEPT ![r] = "idle"]
  /\ session' = [session EXCEPT ![r] = <<>>]
  /\ param' = [param EXCEPT ![r] = <<>>]
  /\ body' = [body EXCEPT ![r] = BodyNone]
  /\ pc' = [pc EXCEPT ![r] = "idle"]
  /\ local' = [local EXCEPT ![r] = NoLocals]
  /\ conn' = [conn EXCEPT ![r] = "none"]
  /\ connects' = [connects EXCEPT ![r] = 0]
  /\ brokerLog' = [brokerLog EXCEPT ![r] = <<>>]
  /\ extLog' = [extLog EXCEPT ![r] = <<>>]
  /\ steps' = [steps EXCEPT ![r] = <<>>]
  /\ outcome' = [outcome EXCEPT ![r] = <<>>]

(***************************************************************************)
(* Steps shared by the handlers.                                           *)
(***************************************************************************)
Step(name, ok) == [step |-> name, ok |-> ok]

\* Dropped for a connection that outlives the handler (kept in a pool, or
\* leaked)
Dropped_kept(c) == c

\* The connection is a local of the handler: leaving the handler drops it.
Dropped(c) == IF c = "held" THEN "dropped" ELSE c

\* return Ok(response), after the steps did
Return(r, response, did) ==
  /\ pc' = [pc EXCEPT ![r] = "done"]
  /\ outcome' = [outcome EXCEPT ![r] = <<response>>]
  /\ conn' = [conn EXCEPT ![r] = Dropped(conn[r])]
  /\ steps' = [steps EXCEPT ![r] = @ \o did]

\* unwrap() of a None / an Err: the handler panics and unwinds.
Panic(r, did) ==
  /\ pc' = [pc EXCEPT ![r] = "panicked"]
  /\ outcome' = outcome
  /\ conn' = [conn EXCEPT ![r] = Dropped(conn[r])]
  /\ steps' = [steps EXCEPT ![r] = @ \o did]

\* the handler goes on to its next call
Goto(r, next, did) ==
  /\ pc' = [pc EXCEPT ![r] = next]
  /\ steps' = [steps EXCEPT ![r] = @ \o did]
  /\ UNCHANGED <<outcome, conn>>

\* let mut conn = Broker::connect(&**ZMQ_CONTEXT).unwrap();
Connect(r, next) ==
  /\ connects' = [connects EXCEPT ![r] = @ + 1]
  /\ \/ /\ conn' = [conn EXCEPT ![r] = "held"]
        /\ pc' = [pc EXCEPT ![r] = next]
        /\ steps' = [steps EXCEPT ![r] = Append(@, Step("connect", TRUE))]
        /\ outcome' = outcome
     \/ Panic(r, <<Step("connect", FALSE)>>)

\* Send that routes the message a second time (a retry)
Send_resend(r, msg) == brokerLog' = [brokerLog EXCEPT ![r] = Append(Append(@, msg), msg)]

\* conn.route::<M, R>(&msg): the message goes out, a reply or a NetError
\* comes back.
Send(r, msg) == brokerLog' = [brokerLog EXCEPT ![r] = Append(@, msg)]

\* match conn.route(&msg) {
\*     Ok(v) => Ok(render_json(status, &v)),
\*     Err(err) => Ok(render_net_error(&err)) }
\* the last call of a handler whose Ok arm renders the reply
RouteLast(r, msg, replies, status) ==
  /\ Send(r, msg)
  /\ \/ \E reply \in replies :
          /\ Return(r, render_json(status, reply), <<Step(msg.type, TRUE)>>)
          /\ local' = [local EXCEPT ![r].reply = <<reply>>]
     \/ \E err \in BackendErrors :
          /\ Return(r, render_net_error(err), <<Step(msg.type, FALSE)>>)
          /\ local' = [local EXCEPT ![r].err = <<err>>]

\* match conn.route(&msg) {
\*     Ok(_) => Ok(Response::with(status::NoContent)),
\*     Err(err) => Ok(render_net_error(&err)) }
\* the last call of a handler whose Ok arm drops the reply
RouteNoContent(r, msg, replies) ==
  /\ Send(r, msg)
  /\ \/ \E reply \in replies :
          /\ Return(r, ResponseWith(NoContent), <<Step(msg.type, TRUE)>>)
          /\ local' = [local EXCEPT ![r].reply = <<reply>>]
     \/ \E err \in BackendErrors :
          /\ Return(r, render_net_error(err), <<Step(msg.type, FALSE)>>)
          /\ local' = [local EXCEPT ![r].err = <<err>>]

\* a call of the external source-control API
CallExt(r, call) == extLog' = [extLog EXCEPT ![r] = Append(@, call)]

(***************************************************************************)
(* session_create                                                          *)
(***************************************************************************)
\* hab_net::Error values a GitHubCli call can fail with
ExtErrors ==
  {[kind |-> "Auth", error |-> "bad_verification_code"],
   [kind |-> "Auth", error |-> "incorrect_client_credentials"],
   [kind |-> "JsonDecode", error |-> "eof"],
   [kind |-> "JsonDecode", error |-> "syntax"],
   [kind |-> "HyperError", error |-> "connection reset"],
   [kind |-> "IO", error |-> "broken pipe"]}

GhTokens == {"gho_1", "gho_2"}
GhUsers == {[id |-> 100, login |-> "alice"], [id |-> 101, login |-> "bob"]}
GhEmails == [email : {"a@example.com", "b@example.com"}, primary : BOOLEAN]
EmailLists == UNION {[1..n -> GhEmails] : n \in 0..MaxEmails}

\* emails.iter().find(|e| e.primary)
FindPrimary(emails) ==
  LET idx == {i \in 1..Len(emails) : emails[i].primary}
  IN  IF idx = {} THEN <<>>
      ELSE <<emails[CHOOSE i \in idx : \A j \in idx : i <= j]>>

\* Option::unwrap_or
UnwrapOr(opt, default) == IF opt = <<>> THEN default ELSE opt[1]

session_create_extract(r) ==
  /\ handler[r] = "session_create" /\ pc[r] = "start"
  /\ IF param[r] = <<>>
       THEN /\ Return(r, ResponseWith(BadRequest), <<Step("param", FALSE)>>)
            /\ local' = local
       ELSE /\ local' = [local EXCEPT ![r].code = param[r]]
            /\ Goto(r, "authenticate", <<Step("param", TRUE)>>)
  /\ UNCHANGED <<handler, session, param, body, connects, brokerLog, extLog>>

\* match github.authenticate(&code) { .. }
session_create_authenticate(r) ==
  /\ handler[r] = "session_create" /\ pc[r] = "authenticate"
  /\ CallExt(r, [op |-> "authenticate", code |-> local[r].code[1]])
  /\ \/ \E token \in GhTokens :
          /\ local' = [local EXCEPT ![r].token = <<token>>]
          /\ Goto(r, "user", <<Step("authenticate", TRUE)>>)
     \/ \E e \in ExtErrors :
          LET err == CASE e.kind = "Auth" -> NetErr("REMOTE_REJECTED", e.error)
                       [] e.kind = "JsonDecode" -> NetErr("BAD_REMOTE_REPLY", "rg:auth:1")
                       [] OTHER -> NetErr("BUG", "rg:auth:0")
          IN  /\ Return(r, render_net_error(err), <<Step("authenticate", FALSE)>>)
              /\ local' = [local EXCEPT ![r].err = <<err>>]
  /\ UNCHANGED <<handler, session, param, body, connects, brokerLog>>

\* match github.user(&token) { .. }
session_create_user(r) ==
  /\ handler[r] = "session_create" /\ pc[r] = "user"
  /\ CallExt(r, [op |-> "user", token |-> local[r].token[1]])
  /\ \/ \E user \in GhUsers :
          /\ local' = [local EXCEPT ![r].user = <<user>>]
          /\ Goto(r, "emails", <<Step("user", TRUE)>>)
     \/ \E e \in ExtErrors :
          LET err == CASE e.kind = "JsonDecode" -> NetErr("BAD_REMOTE_REPLY", "rg:auth:1")
                       [] OTHER -> NetErr("BUG", "rg:auth:2")
          IN  /\ Return(r, render_net_error(err), <<Step("user", FALSE)>>)
              /\ local' = [local EXCEPT ![r].err = <<err>>]
  /\ UNCHANGED <<handler, session, param, body, connects, brokerLog>>

\* session_create_emails going on without an address when the fetch failed
session_create_emails_error_ignored(r) ==
  /\ handler[r] = "session_create" /\ pc[r] = "emails"
  /\ CallExt(r, [op |-> "emails", token |-> local[r].token[1]])
  /\ \/ \E emails \in EmailLists :
          IF emails = <<>>
            THEN /\ Panic(r, <<Step("emails", TRUE), Step("emails[0]", FALSE)>>)
                 /\ local' = local
            ELSE /\ local' = [local EXCEPT ![r].email =
                                <<UnwrapOr(FindPrimary(emails), emails[1]).email>>]
                 /\ Goto(r, "connect", <<Step("emails", TRUE), Step("emails[0]", TRUE)>>)
     \/ \E e \in ExtErrors :
          /\ local' = [local EXCEPT ![r].email = <<"">>]
          /\ Goto(r, "connect", <<Step("emails", FALSE)>>)
  /\ UNCHANGED <<handler, session, param, body, connects, brokerLog>>

\* let email = match github.emails(&token) { .. };
\* The argument of unwrap_or, &emails[0], is evaluated before the call: an
\* empty list panics on the index.
session_create_emails(r) ==
  /\ handler[r] = "session_create" /\ pc[r] = "emails"
  /\ CallExt(r, [op |-> "emails", token |-> local[r].token[1]])
  /\ \/ \E emails \in EmailLists :
          IF emails = <<>>
            THEN /\ Panic(r, <<Step("emails", TRUE), Step("emails[0]", FALSE)>>)
                 /\ local' = local
            ELSE /\ local' = [local EXCEPT ![r].email =
                                <<UnwrapOr(FindPrimary(emails), emails[1]).email>>]
                 /\ Goto(r, "connect", <<Step("emails", TRUE), Step("emails[0]", TRUE)>>)
     \/ \E e \in ExtErrors :
          LET err == NetErr("ACCESS_DENIED", "rg:auth:0")
          IN  /\ Return(r, render_net_error(err), <<Step("emails", FALSE)>>)
              /\ local' = [local EXCEPT ![r].err = <<err>>]
  /\ UNCHANGED <<handler, session, param, body, connects, brokerLog>>

session_create_connect(r) ==
  /\ handler[r] = "session_create" /\ pc[r] = "connect"
  /\ Connect(r, "route")
  /\ UNCHANGED <<handler, session, param, body, local, brokerLog, extLog>>

\* the SessionCreate the handler builds
SessionCreateOf(r) ==
  [type |-> "SessionCreate", token |-> local[r].token[1],
   extern_id |-> local[r].user[1].id, email |-> local[r].email[1],
   name |-> local[r].user[1].login, provider |-> "GitHub"]

session_create_route(r) ==
  /\ handler[r] = "session_create" /\ pc[r] = "route"
  /\ RouteLast(r, SessionCreateOf(r), Sessions, StatusOk)
  /\ UNCHANGED <<handler, session, param, body, connects, extLog>>

session_create(r) ==
  \/ session_create_extract(r)
  \/ session_create_authenticate(r)
  \/ session_create_user(r)
  \/ session_create_emails(r)
  \/ session_create_connect(r)
  \/ session_create_route(r)

(***************************************************************************)
(* job_create                                                              *)
(***************************************************************************)
Projects == {[id |-> "core/web"], [id |-> "core/db"]}
Jobs == {[id |-> 42, state |-> "Pending"]}

\* Some(&Value::String(ref val))
IsJString(found) == found # <<>> /\ found[1].t = "string"

job_create_extract(r) ==
  /\ handler[r] = "job_create" /\ pc[r] = "start"
  /\ IF body[r].res # "some" \/ ~IsJString(Find(body[r].val, "project_id"))
       THEN /\ Return(r, ResponseWith(BadRequest), <<Step("body", FALSE)>>)
            /\ local' = local
       ELSE IF session[r] = <<>>
       THEN /\ Panic(r, <<Step("body", TRUE), Step("session", FALSE)>>)
            /\ local' = local
       ELSE /\ local' = [local EXCEPT ![r].request =
                           <<[type |-> "ProjectGet",
                              id |-> Find(body[r].val, "project_id")[1].s]>>]
            /\ Goto(r, "connect", <<Step("body", TRUE), Step("session", TRUE)>>)
  /\ UNCHANGED <<handler, session, param, body, connects, brokerLog, extLog>>

job_create_connect(r) ==
  /\ handler[r] = "job_create" /\ pc[r] = "connect"
  /\ Connect(r, "project_get")
  /\ UNCHANGED <<handler, session, param, body, local, brokerLog, extLog>>

\* let project = match conn.route::<ProjectGet, Project>(&project_get) { .. };
job_create_project_get(r) ==
  /\ handler[r] = "job_create" /\ pc[r] = "project_get"
  /\ Send(r, local[r].request[1])
  /\ \/ \E project \in Projects :
          /\ local' = [local EXCEPT ![r].project = <<project>>]
          /\ Goto(r, "route", <<Step("ProjectGet", TRUE)>>)
     \/ \E err \in BackendErrors :
          /\ Return(r, render_net_error(err), <<Step("ProjectGet", FALSE)>>)
          /\ local' = [local EXCEPT ![r].err = <<err>>]
  /\ UNCHANGED <<handler, session, param, body, connects, extLog>>

\* JobSpecOf with the project built from the requested id instead of the
\* reply of ProjectGet
JobSpecOf_requested_project(r) ==
  [type |-> "JobSpec", owner_id |-> session[r][1].id,
   project |-> [id |-> local[r].request[1].id]]

\* the JobSpec the handler builds
JobSpecOf(r) ==
  [type |-> "JobSpec", owner_id |-> session[r][1].id, project |-> local[r].project[1]]

\* job_create_route rendering the created job with status::Ok
job_create_route_status_ok(r) ==
  /\ handler[r] = "job_create" /\ pc[r] = "route"
  /\ RouteLast(r, JobSpecOf(r), Jobs, StatusOk)
  /\ UNCHANGED <<handler, session, param, body, connects, extLog>>

job_create_route(r) ==
  /\ handler[r] = "job_create" /\ pc[r] = "route"
  /\ RouteLast(r, JobSpecOf(r), Jobs, Created)
  /\ UNCHANGED <<handler, session, param, body, connects, extLog>>

job_create(r) ==
  \/ job_create_extract(r)
  \/ job_create_connect(r)
  \/ job_create_project_get(r)
  \/ job_create_route(r)

(***************************************************************************)
(* job_show                                                                *)
(***************************************************************************)
\* id.parse() into the type JobGet::set_id takes.  The message is declared
\* in the protocol crate; its id is numeric, as the specification has it
\* (GET /jobs/abc is answered 400).
ParseJobId(s) == ParseU64(s)

\* job_show_extract answering from the response another invocation got for
\* the same id (a cache), without a call of its own
job_show_extract_cached(r) ==
  /\ handler[r] = "job_show" /\ pc[r] = "start"
  /\ LET hits == {q \in Reqs \ {r} : /\ handler[q] = "job_show"
                                      /\ param[q] = param[r]
                                      /\ pc[q] = "done"}
     IN  IF param[r] = <<>> \/ ParseJobId(param[r][1]) = <<>>
           THEN /\ Return(r, ResponseWith(BadRequest), <<Step("param", FALSE)>>)
                /\ local' = local
           ELSE IF hits # {}
           THEN /\ Return(r, outcome[CHOOSE q \in hits : TRUE][1], <<Step("param", TRUE)>>)
                /\ local' = local
           ELSE /\ local' = [local EXCEPT ![r].id = ParseJobId(param[r][1])]
                /\ Goto(r, "connect", <<Step("param", TRUE)>>)
  /\ UNCHANGED <<handler, session, param, body, connects, brokerLog, extLog>>

job_show_extract(r) ==
  /\ handler[r] = "job_show" /\ pc[r] = "start"
  /\ IF param[r] = <<>> \/ ParseJobId(param[r][1]) = <<>>
       THEN /\ Return(r, ResponseWith(BadRequest), <<Step("param", FALSE)>>)
            /\ local' = local
       ELSE /\ local' = [local EXCEPT ![r].id = ParseJobId(param[r][1])]
            /\ Goto(r, "connect", <<Step("param", TRUE)>>)
  /\ UNCHANGED <<handler, session, param, body, connects, brokerLog, extLog>>

job_show_connect(r) ==
  /\ handler[r] = "job_show" /\ pc[r] = "connect"
  /\ Connect(r, "route")
  /\ UNCHANGED <<handler, session, param, body, local, brokerLog, extLog>>

job_show_route(r) ==
  /\ handler[r] = "job_show" /\ pc[r] = "route"
  /\ RouteLast(r, [type |-> "JobGet", id |-> local[r].id[1]], Jobs, StatusOk)
  /\ UNCHANGED <<handler, session, param, body, connects, extLog>>

job_show(r) == job_show_extract(r) \/ job_show_connect(r) \/ job_show_route(r)

(***************************************************************************)
(* status                                                                  *)
(***************************************************************************)
status(r) ==
  /\ handler[r] = "status" /\ pc[r] = "start"
  /\ Return(r, ResponseWith(StatusOk), <<>>)
  /\ UNCHANGED <<handler, session, param, body, local, connects, brokerLog, extLog>>

(***************************************************************************)
(* list_account_invitations, list_user_origins                             *)
(***************************************************************************)
InvitationLists == {[invitations |-> <<>>], [invitations |-> <<[id |-> 5, origin |-> "core"]>>]}
OriginLists == {[origins |-> <<>>], [origins |-> <<"core">>]}

\* list_account_invitations_session answering 401 when no session is
\* attached
list_account_invitations_session_unauthorized(r) ==
  /\ handler[r] = "list_account_invitations" /\ pc[r] = "start"
  /\ IF session[r] = <<>>
       THEN Return(r, ResponseWith(Unauthorized), <<Step("session", FALSE)>>)
       ELSE Goto(r, "connect", <<Step("session", TRUE)>>)
  /\ UNCHANGED <<handler, session, param, body, local, connects, brokerLog, extLog>>

list_account_invitations_session(r) ==
  /\ handler[r] = "list_account_invitations" /\ pc[r] = "start"
  /\ IF session[r] = <<>>
       THEN Panic(r, <<Step("session", FALSE)>>)
       ELSE Goto(r, "connect", <<Step("session", TRUE)>>)
  /\ UNCHANGED <<handler, session, param, body, local, connects, brokerLog, extLog>>

list_account_invitations_connect(r) ==
  /\ handler[r] = "list_account_invitations" /\ pc[r] = "connect"
  /\ Connect(r, "route")
  /\ UNCHANGED <<handler, session, param, body, local, brokerLog, extLog>>

\* the AccountInvitationListRequest the handler builds
\* InvitationListRequestOf reading the session from a place all requests
\* share, where the request that stored it first is found
InvitationListRequestOf_shared_session(r) ==
  [type |-> "AccountInvitationListRequest",
   account_id |-> session[CHOOSE q \in Reqs :
                            /\ session[q] # <<>>
                            /\ \A p \in Reqs : session[p] # <<>> => q <= p][1].id]

InvitationListRequestOf(r) ==
  [type |-> "AccountInvitationListRequest", account_id |-> session[r][1].id]

list_account_invitations_route(r) ==
  /\ handler[r] = "list_account_invitations" /\ pc[r] = "route"
  /\ RouteLast(r, InvitationListRequestOf(r), InvitationLists, StatusOk)
  /\ UNCHANGED <<handler, session, param, body, connects, extLog>>

list_account_invitations(r) ==
  \/ list_account_invitations_session(r)
  \/ list_account_invitations_connect(r)
  \/ list_account_invitations_route(r)

\* list_user_origins_session with the session looked up only when used
list_user_origins_session_unchecked(r) ==
  /\ handler[r] = "list_user_origins" /\ pc[r] = "start"
  /\ Goto(r, "connect", <<Step("session", session[r] # <<>>)>>)
  /\ UNCHANGED <<handler, session, param, body, local, connects, brokerLog, extLog>>

list_user_origins_session(r) ==
  /\ handler[r] = "list_user_origins" /\ pc[r] = "start"
  /\ IF session[r] = <<>>
       THEN Panic(r, <<Step("session", FALSE)>>)
       ELSE Goto(r, "connect", <<Step("session", TRUE)>>)
  /\ UNCHANGED <<handler, session, param, body, local, connects, brokerLog, extLog>>

list_user_origins_connect(r) ==
  /\ handler[r] = "list_user_origins" /\ pc[r] = "connect"
  /\ Connect(r, "route")
  /\ UNCHANGED <<handler, session, param, body, local, brokerLog, extLog>>

\* the AccountOriginListRequest the handler builds
OriginListRequestOf(r) ==
  [type |-> "AccountOriginListRequest", account_id |-> session[r][1].id]

list_user_origins_route(r) ==
  /\ handler[r] = "list_user_origins" /\ pc[r] = "route"
  /\ RouteLast(r, OriginListRequestOf(r), OriginLists, StatusOk)
  /\ UNCHANGED <<handler, session, param, body, connects, extLog>>

list_user_origins(r) ==
  \/ list_user_origins_session(r)
  \/ list_user_origins_connect(r)
  \/ list_user_origins_route(r)

(***************************************************************************)
(* accept_invitation                                                       *)
(***************************************************************************)
AcceptResponses == {[type |-> "OriginInvitationAcceptResponse"]}

accept_invitation_extract(r) ==
  /\ handler[r] = "accept_invitation" /\ pc[r] = "start"
  /\ IF session[r] = <<>>
       THEN /\ Panic(r, <<Step("session", FALSE)>>)
            /\ local' = local
       ELSE IF param[r] = <<>> \/ ParseU64(param[r][1]) = <<>>
       THEN /\ Return(r, ResponseWith(BadRequest),
                      <<Step("session", TRUE), Step("param", FALSE)>>)
            /\ local' = local
       ELSE /\ local' = [local EXCEPT ![r].id = ParseU64(param[r][1])]
            /\ Goto(r, "connect", <<Step("session", TRUE), Step("param", TRUE)>>)
  /\ UNCHANGED <<handler, session, param, body, connects, brokerLog, extLog>>

accept_invitation_connect(r) ==
  /\ handler[r] = "accept_invitation" /\ pc[r] = "connect"
  /\ Connect(r, "route")
  /\ UNCHANGED <<handler, session, param, body, local, brokerLog, extLog>>

\* AcceptRequestOf with the accepting account taken from the path
AcceptRequestOf_from_path(r) ==
  [type |-> "OriginInvitationAcceptRequest",
   account_accepting_request |-> local[r].id[1],
   invite_id |-> local[r].id[1],
   ignore |-> FALSE]

\* the OriginInvitationAcceptRequest the handler builds
AcceptRequestOf(r) ==
  [type |-> "OriginInvitationAcceptRequest",
   account_accepting_request |-> session[r][1].id,
   invite_id |-> local[r].id[1],
   ignore |-> FALSE]

accept_invitation_route(r) ==
  /\ handler[r] = "accept_invitation" /\ pc[r] = "route"
  /\ RouteNoContent(r, AcceptRequestOf(r), AcceptResponses)
  /\ UNCHANGED <<handler, session, param, body, connects, extLog>>

accept_invitation(r) ==
  \/ accept_invitation_extract(r)
  \/ accept_invitation_connect(r)
  \/ accept_invitation_route(r)

(***************************************************************************)
(* project_create                                                          *)
(***************************************************************************)
Origins == {[name |-> "core"], [name |-> "habitat"]}
Repos == {[clone_url |-> "https://github.com/acme/acme.git"]}

\* the file contents GitHubCli::contents returns: the content either is
\* base64 of a plan, base64 of something that is no plan, or no base64
Contents ==
  {[content |-> [base64 |-> FALSE]],
   [content |-> [base64 |-> TRUE, bytes |-> [pkg_name |-> <<>>]]],
   [content |-> [base64 |-> TRUE, bytes |-> [pkg_name |-> <<"web">>]]]}

\* contents.content.from_base64()
FromBase64(content) == IF content.base64 THEN <<content.bytes>> ELSE <<>>

\* Plan::from_bytes(bytes)
PlanFromBytes(bytes) ==
  IF bytes.pkg_name = <<>> THEN <<>> ELSE <<[name |-> bytes.pkg_name[1]]>>

\* format!("{}/{}", a, b)
FormatId(a, b) == <<a, "/", b>>

\* Some(&Value::Object(ref map))
IsJObject(found) == found # <<>> /\ found[1].t = "object"

\* ProjectBodyError with the message of the plan_path arm copied from the
\* origin arm
ProjectBodyError_copied_message(b) ==
  IF b.res # "some" THEN <<ResponseWith(BadRequest)>>
  ELSE IF ~IsJString(Find(b.val, "origin"))
    THEN <<ResponseWithText(BadRequest, "Missing required field: origin")>>
  ELSE IF ~IsJString(Find(b.val, "plan_path"))
    THEN <<ResponseWithText(BadRequest, "Missing required field: origin")>>
  ELSE IF ~IsJObject(Find(b.val, "github"))
    THEN <<ResponseWithText(BadRequest, "Missing required field: github")>>
  ELSE IF ~IsJString(Find(Find(b.val, "github")[1], "organization"))
    THEN <<ResponseWithText(BadRequest, "Missing required field: github.organization")>>
  ELSE IF ~IsJString(Find(Find(b.val, "github")[1], "repo"))
    THEN <<ResponseWithText(BadRequest, "Missing required field: github.repo")>>
  ELSE <<>>

\* the body match of project_create up to the repository lookup: the
\* response of the first failing check, or none when all fields are there
\* (the messages are the source's, without the quotes around the field)
ProjectBodyError(b) ==
  IF b.res # "some" THEN <<ResponseWith(BadRequest)>>
  ELSE IF ~IsJString(Find(b.val, "origin"))
    THEN <<ResponseWithText(BadRequest, "Missing required field: origin")>>
  ELSE IF ~IsJString(Find(b.val, "plan_path"))
    THEN <<ResponseWithText(BadRequest, "Missing required field: plan_path")>>
  ELSE IF ~IsJObject(Find(b.val, "github"))
    THEN <<ResponseWithText(BadRequest, "Missing required field: github")>>
  ELSE IF ~IsJString(Find(Find(b.val, "github")[1], "organization"))
    THEN <<ResponseWithText(BadRequest, "Missing required field: github.organization")>>
  ELSE IF ~IsJString(Find(Find(b.val, "github")[1], "repo"))
    THEN <<ResponseWithText(BadRequest, "Missing required field: github.repo")>>
  ELSE <<>>

\* the responses of the stages after the body match
RepoLookupFailed == ResponseWithText(BadRequest, "rg:pc:1")
ContentsFetchFailed == ResponseWithText(BadRequest, "rg:pc:2")
PlanParseFailed == ResponseWithText(BadRequest, "rg:pc:3")
\* the decode arm answering with the tag of the parse arm
Base64DecodeFailed_parse_tag == ResponseWithText(BadRequest, "rg:pc:3")
Base64DecodeFailed == ResponseWithText(BadRequest, "rg:pc:4")

project_create_extract(r) ==
  /\ handler[r] = "project_create" /\ pc[r] = "start"
  /\ IF session[r] = <<>>
       THEN /\ Panic(r, <<Step("session", FALSE)>>)
            /\ local' = local
       ELSE IF ProjectBodyError(body[r]) # <<>>
       THEN /\ Return(r, ProjectBodyError(body[r])[1],
                      <<Step("session", TRUE), Step("body", FALSE)>>)
            /\ local' = local
       ELSE /\ local' = [local EXCEPT
                  ![r].origin_get = <<[type |-> "OriginGet",
                                       name |-> Find(body[r].val, "origin")[1].s]>>,
                  ![r].project = <<[type |-> "ProjectCreate",
                                    plan_path |-> Find(body[r].val, "plan_path")[1].s,
                                    git |-> <<>>, id |-> <<>>, owner_id |-> <<>>]>>,
                  ![r].organization =
                     <<Find(Find(body[r].val, "github")[1], "organization")[1].s>>,
                  ![r].repo = <<Find(Find(body[r].val, "github")[1], "repo")[1].s>>]
            /\ Goto(r, "repo", <<Step("session", TRUE), Step("body", TRUE)>>)
  /\ UNCHANGED <<handler, session, param, body, connects, brokerLog, extLog>>

\* match github.repo(&session.get_token(), &organization, &repo) { .. },
\* the last arm of the body match
project_create_repo(r) ==
  /\ handler[r] = "project_create" /\ pc[r] = "repo"
  /\ CallExt(r, [op |-> "repo", token |-> session[r][1].token,
                 organization |-> local[r].organization[1], repo |-> local[r].repo[1]])
  /\ \/ \E repo \in Repos :
          /\ local' = [local EXCEPT ![r].project =
                         <<[@[1] EXCEPT !.git = <<[url |-> repo.clone_url]>>]>>]
          /\ Goto(r, "connect", <<Step("repo", TRUE)>>)
     \/ \E e \in ExtErrors :
          /\ Return(r, RepoLookupFailed, <<Step("repo", FALSE)>>)
          /\ local' = local
  /\ UNCHANGED <<handler, session, param, body, connects, brokerLog>>

project_create_connect(r) ==
  /\ handler[r] = "project_create" /\ pc[r] = "connect"
  /\ Connect(r, "origin_get")
  /\ UNCHANGED <<handler, session, param, body, local, brokerLog, extLog>>

\* project_create_origin_get with the Err arm not returning: the error is
\* kept and the handler goes on with an empty origin
project_create_origin_get_error_ignored(r) ==
  /\ handler[r] = "project_create" /\ pc[r] = "origin_get"
  /\ Send(r, local[r].origin_get[1])
  /\ \/ \E origin \in Origins :
          /\ local' = [local EXCEPT ![r].origin = <<origin>>]
          /\ Goto(r, "contents", <<Step("OriginGet", TRUE)>>)
     \/ \E err \in BackendErrors :
          /\ local' = [local EXCEPT ![r].err = <<err>>, ![r].origin = <<[name |-> ""]>>]
          /\ Goto(r, "contents", <<Step("OriginGet", FALSE)>>)
  /\ UNCHANGED <<handler, session, param, body, connects, extLog>>

\* let origin = match conn.route::<OriginGet, Origin>(&origin_get) { .. };
project_create_origin_get(r) ==
  /\ handler[r] = "project_create" /\ pc[r] = "origin_get"
  /\ Send(r, local[r].origin_get[1])
  /\ \/ \E origin \in Origins :
          /\ local' = [local EXCEPT ![r].origin = <<origin>>]
          /\ Goto(r, "contents", <<Step("OriginGet", TRUE)>>)
     \/ \E err \in BackendErrors :
          /\ Return(r, render_net_error(err), <<Step("OriginGet", FALSE)>>)
          /\ local' = [local EXCEPT ![r].err = <<err>>]
  /\ UNCHANGED <<handler, session, param, body, connects, extLog>>

\* project_create_contents with the plan's parse error not returned: the
\* handler goes on with an empty plan name
project_create_contents_plan_unchecked(r) ==
  /\ handler[r] = "project_create" /\ pc[r] = "contents"
  /\ CallExt(r, [op |-> "contents", token |-> session[r][1].token,
                 organization |-> local[r].organization[1], repo |-> local[r].repo[1],
                 path |-> local[r].project[1].plan_path])
  /\ \/ \E contents \in Contents :
          LET bytes == FromBase64(contents.content)
              plan == IF bytes = <<>> THEN <<>> ELSE PlanFromBytes(bytes[1])
          IN  IF bytes = <<>>
                THEN /\ Return(r, Base64DecodeFailed,
                               <<Step("contents", TRUE), Step("from_base64", FALSE)>>)
                     /\ local' = local
              ELSE IF plan = <<>>
                THEN /\ local' = [local EXCEPT ![r].project =
                           <<[@[1] EXCEPT
                                !.id = <<FormatId(local[r].origin[1].name, "")>>,
                                !.owner_id = <<session[r][1].id>>]>>]
                     /\ Goto(r, "route",
                             <<Step("contents", TRUE), Step("from_base64", TRUE),
                               Step("plan", FALSE)>>)
              ELSE /\ local' = [local EXCEPT ![r].project =
                         <<[@[1] EXCEPT
                              !.id = <<FormatId(local[r].origin[1].name, plan[1].name)>>,
                              !.owner_id = <<session[r][1].id>>]>>]
                   /\ Goto(r, "route",
                           <<Step("contents", TRUE), Step("from_base64", TRUE),
                             Step("plan", TRUE)>>)
     \/ \E e \in ExtErrors :
          /\ Return(r, ContentsFetchFailed, <<Step("contents", FALSE)>>)
          /\ local' = local
  /\ UNCHANGED <<handler, session, param, body, connects, brokerLog>>

\* match github.contents(..) { Ok(contents) => decode, parse, set_id; .. }
\* followed by project.set_owner_id(session.get_id())
project_create_contents(r) ==
  /\ handler[r] = "project_create" /\ pc[r] = "contents"
  /\ CallExt(r, [op |-> "contents", token |-> session[r][1].token,
                 organization |-> local[r].organization[1], repo |-> local[r].repo[1],
                 path |-> local[r].project[1].plan_path])
  /\ \/ \E contents \in Contents :
          LET bytes == FromBase64(contents.content)
              plan == IF bytes = <<>> THEN <<>> ELSE PlanFromBytes(bytes[1])
          IN  IF bytes = <<>>
                THEN /\ Return(r, Base64DecodeFailed,
                               <<Step("contents", TRUE), Step("from_base64", FALSE)>>)
                     /\ local' = local
              ELSE IF plan = <<>>
                THEN /\ Return(r, PlanParseFailed,
                               <<Step("contents", TRUE), Step("from_base64", TRUE),
                                 Step("plan", FALSE)>>)
                     /\ local' = local
              ELSE /\ local' = [local EXCEPT ![r].project =
                         <<[@[1] EXCEPT
                              !.id = <<FormatId(local[r].origin[1].name, plan[1].name)>>,
                              !.owner_id = <<session[r][1].id>>]>>]
                   /\ Goto(r, "route",
                           <<Step("contents", TRUE), Step("from_base64", TRUE),
                             Step("plan", TRUE)>>)
     \/ \E e \in ExtErrors :
          /\ Return(r, ContentsFetchFailed, <<Step("contents", FALSE)>>)
          /\ local' = local
  /\ UNCHANGED <<handler, session, param, body, connects, brokerLog>>

project_create_route(r) ==
  /\ handler[r] = "project_create" /\ pc[r] = "route"
  /\ RouteLast(r, local[r].project[1], Projects, Created)
  /\ UNCHANGED <<handler, session, param, body, connects, extLog>>

project_create(r) ==
  \/ project_create_extract(r)
  \/ project_create_repo(r)
  \/ project_create_connect(r)
  \/ project_create_origin_get(r)
  \/ project_create_contents(r)
  \/ project_create_route(r)

(***************************************************************************)
(* project_delete                                                          *)
(***************************************************************************)
NetOks == {[type |-> "NetOk"]}

\* id.parse() into the type ProjectDelete::set_id takes.  The message is
\* declared in the protocol crate; its id is taken to be numeric, as the
\* specification has it for every id path parameter.
ParseProjectDeleteId(s) == ParseU64(s)

\* the ProjectDelete the handler builds
ProjectDeleteOf(r, id) ==
  [type |-> "ProjectDelete", id |-> id, requestor_id |-> session[r][1].id]

project_delete_extract(r) ==
  /\ handler[r] = "project_delete" /\ pc[r] = "start"
  /\ IF param[r] = <<>> \/ ParseProjectDeleteId(param[r][1]) = <<>>
       THEN /\ Return(r, ResponseWith(BadRequest), <<Step("param", FALSE)>>)
            /\ local' = local
       ELSE IF session[r] = <<>>
       THEN /\ Panic(r, <<Step("param", TRUE), Step("session", FALSE)>>)
            /\ local' = local
       ELSE /\ local' = [local EXCEPT ![r].request =
                           <<ProjectDeleteOf(r, ParseProjectDeleteId(param[r][1])[1])>>]
            /\ Goto(r, "connect", <<Step("param", TRUE), Step("session", TRUE)>>)
  /\ UNCHANGED <<handler, session, param, body, connects, brokerLog, extLog>>

project_delete_connect(r) ==
  /\ handler[r] = "project_delete" /\ pc[r] = "connect"
  /\ Connect(r, "route")
  /\ UNCHANGED <<handler, session, param, body, local, brokerLog, extLog>>

project_delete_route(r) ==
  /\ handler[r] = "project_delete" /\ pc[r] = "route"
  /\ RouteNoContent(r, local[r].request[1], NetOks)
  /\ UNCHANGED <<handler, session, param, body, connects, extLog>>

project_delete(r) ==
  project_delete_extract(r) \/ project_delete_connect(r) \/ project_delete_route(r)

(***************************************************************************)
(* project_update                                                          *)
(***************************************************************************)
\* id.parse() into the type Project::set_id takes: a String (project_create
\* passes it format!("{}/{}", ..)).
ParseProjectId(s) == ParseString(s)

\* the ProjectUpdate the handler builds
ProjectUpdateOf(r, id) ==
  [type |-> "ProjectUpdate", requestor_id |-> session[r][1].id, project |-> [id |-> id]]

project_update_extract(r) ==
  /\ handler[r] = "project_update" /\ pc[r] = "start"
  /\ IF param[r] = <<>> \/ ParseProjectId(param[r][1]) = <<>>
       THEN /\ Return(r, ResponseWith(BadRequest), <<Step("param", FALSE)>>)
            /\ local' = local
       ELSE IF session[r] = <<>>
       THEN /\ Panic(r, <<Step("param", TRUE), Step("session", FALSE)>>)
            /\ local' = local
       ELSE /\ local' = [local EXCEPT ![r].request =
                           <<ProjectUpdateOf(r, ParseProjectId(param[r][1])[1])>>]
            /\ Goto(r, "connect", <<Step("param", TRUE), Step("session", TRUE)>>)
  /\ UNCHANGED <<handler, session, param, body, connects, brokerLog, extLog>>

project_update_connect(r) ==
  /\ handler[r] = "project_update" /\ pc[r] = "connect"
  /\ Connect(r, "route")
  /\ UNCHANGED <<handler, session, param, body, local, brokerLog, extLog>>

project_update_route(r) ==
  /\ handler[r] = "project_update" /\ pc[r] = "route"
  /\ RouteNoContent(r, local[r].request[1], NetOks)
  /\ UNCHANGED <<handler, session, param, body, connects, extLog>>

project_update(r) ==
  project_update_extract(r) \/ project_update_connect(r) \/ project_update_route(r)

(***************************************************************************)
(* project_show                                                            *)
(***************************************************************************)
\* id.parse() into the type ProjectGet::set_id takes: a String (job_create
\* passes it val.to_string()).
ParseProjectGetId(s) == ParseString(s)

project_show_extract(r) ==
  /\ handler[r] = "project_show" /\ pc[r] = "start"
  /\ IF param[r] = <<>> \/ ParseProjectGetId(param[r][1]) = <<>>
       THEN /\ Return(r, ResponseWith(BadRequest), <<Step("param", FALSE)>>)
            /\ local' = local
       ELSE /\ local' = [local EXCEPT ![r].request =
                           <<[type |-> "ProjectGet", id |-> ParseProjectGetId(param[r][1])[1]]>>]
            /\ Goto(r, "connect", <<Step("param", TRUE)>>)
  /\ UNCHANGED <<handler, session, param, body, connects, brokerLog, extLog>>

project_show_connect(r) ==
  /\ handler[r] = "project_show" /\ pc[r] = "connect"
  /\ Connect(r, "route")
  /\ UNCHANGED <<handler, session, param, body, local, brokerLog, extLog>>

project_show_route(r) ==
  /\ handler[r] = "project_show" /\ pc[r] = "route"
  /\ RouteLast(r, local[r].request[1], Projects, StatusOk)
  /\ UNCHANGED <<handler, session, param, body, connects, extLog>>

project_show(r) ==
  project_show_extract(r) \/ project_show_connect(r) \/ project_show_route(r)

(***************************************************************************)
(* The server.                                                             *)
(***************************************************************************)
Next ==
  \E r \in Reqs :
    \/ Receive(r)
    \/ Reply(r)
    \/ session_create(r)
    \/ job_create(r)
    \/ job_show(r)
    \/ status(r)
    \/ list_account_invitations(r)
    \/ list_user_origins(r)
    \/ accept_invitation(r)
    \/ project_create(r)
    \/ project_delete(r)
    \/ project_update(r)
    \/ project_show(r)

Spec == Init /\ [][Next]_vars

(***************************************************************************)
(* The same request served twice.  Two invocations of one handler, in the  *)
(* slots of Twice, get the same request; their steps interleave freely     *)
(* (one after the other included).  The read-only handlers run against a   *)
(* backend whose state does not change: it answers a message it has       *)
(* answered before with the same reply.                                    *)
(***************************************************************************)
Twice == {1, 2}

TwiceHandlers == {"job_show", "project_show", "session_create", "project_create"}

ReadOnlyHandlers == {"job_show", "project_show"}

\* the path parameters tried: none, or one character
ShortParams == {p \in ParamOpts : p # <<>> => Len(p[1]) = 1}

ReceiveTwice ==
  /\ \A q \in Reqs : pc[q] = "idle"
  /\ \E h \in TwiceHandlers, s \in SessionOpts, p \in ShortParams :
       /\ h \notin ParamHandlers => p = <<>>
       /\ \E b \in BodiesOf(h) :
            /\ handler' = [r \in Reqs |-> IF r \in Twice THEN h ELSE handler[r]]
            /\ session' = [r \in Reqs |-> IF r \in Twice THEN s ELSE session[r]]
            /\ param' = [r \in Reqs |-> IF r \in Twice THEN p ELSE param[r]]
            /\ body' = [r \in Reqs |-> IF r \in Twice THEN b ELSE body[r]]
  /\ pc' = [r \in Reqs |-> IF r \in Twice THEN "start" ELSE pc[r]]
  /\ UNCHANGED <<local, conn, connects, brokerLog, extLog, steps, outcome>>

\* the broker has answered the request's message
Answered(r) == local[r].reply # <<>> \/ local[r].err # <<>>

\* an unchanged backend answers equal messages equally
BackendUnchanged ==
  \A r, q \in Twice :
    (/\ handler[r] \in ReadOnlyHandlers
     /\ Answered(r) /\ Answered(q)
     /\ brokerLog[r] = brokerLog[q]) =>
      /\ local[r].reply = local[q].reply
      /\ local[r].err = local[q].err

job_show_twice(r) ==
  \/ job_show_extract(r)
  \/ job_show_connect(r)
  \/ job_show_route(r) /\ BackendUnchanged'

project_show_twice(r) ==
  \/ project_show_extract(r)
  \/ project_show_connect(r)
  \/ project_show_route(r) /\ BackendUnchanged'

NextTwice ==
  \/ ReceiveTwice
  \/ \E r \in Twice :
       \/ job_show_twice(r)
       \/ project_show_twice(r)
       \/ session_create(r)
       \/ project_create(r)

SpecTwice == Init /\ [][NextTwice]_vars

(***************************************************************************)
(* Requests served concurrently.  Iron runs a handler per request on a     *)
(* pool of threads: every slot takes a request when it is free and the     *)
(* steps of the handlers in flight interleave.                             *)
(***************************************************************************)
ConcHandlers == {"list_account_invitations", "accept_invitation"}

\* the invitation ids tried: one digit
ConcParams == {p \in ShortParams : p # <<>> /\ p[1][1] \in Digits}

ReceiveConc(r) ==
  /\ pc[r] = "idle"
  /\ \E h \in ConcHandlers, s \in Sessions, p \in ConcParams \cup {<<>>} :
       /\ h \in ParamHandlers <=> p # <<>>
       /\ handler' = [handler EXCEPT ![r] = h]
       /\ session' = [session EXCEPT ![r] = <<s>>]
       /\ param' = [param EXCEPT ![r] = p]
       /\ body' = [body EXCEPT ![r] = BodyNone]
  /\ pc' = [pc EXCEPT ![r] = "start"]
  /\ UNCHANGED <<local, conn, connects, brokerLog, extLog, steps, outcome>>

NextConc ==
  \E r \in Reqs :
    \/ ReceiveConc(r)
    \/ Reply(r)
    \/ list_account_invitations(r)
    \/ accept_invitation(r)

SpecConc == Init /\ [][NextConc]_vars

(***************************************************************************)
(* Properties.                                                             *)
(***************************************************************************)
Final(r) == pc[r] \in {"done", "panicked"}

HasMsg(r, type) == \E i \in 1..Len(brokerLog[r]) : brokerLog[r][i].type = type

HasExt(r, op) == \E i \in 1..Len(extLog[r]) : extLog[r][i].op = op

Succeeded(r, name) == \E i \in 1..Len(steps[r]) : steps[r][i] = Step(name, TRUE)

Failed(r, name) == \E i \in 1..Len(steps[r]) : steps[r][i] = Step(name, FALSE)

\* the status table of the error translator
MappedStatus ==
  {<<"ENTITY_NOT_FOUND", 404>>, <<"ENTITY_CONFLICT", 409>>, <<"NO_SHARD", 503>>,
   <<"TIMEOUT", 408>>, <<"BAD_REMOTE_REPLY", 502>>, <<"SESSION_EXPIRED", 401>>}

ExpectedStatus(code) ==
  IF \E p \in MappedStatus : p[1] = code
    THEN (CHOOSE p \in MappedStatus : p[1] = code)[2]
    ELSE 500

\* the response the error translator owes for a NetError
Translated(err) ==
  [status |-> ExpectedStatus(err.code),
   body |-> [kind |-> "json", val |-> err],
   headers |-> <<"application/json">>]

\* C1: whenever a handler renders a NetError (a backend error or one it
\* made itself), whatever its code, the request ends with the status the
\* table gives for the code, 500 for a code outside the table, and with the
\* serialized error as the JSON body.
C1_ErrorTranslation ==
  \A r \in Reqs :
    local[r].err # <<>> =>
      /\ pc[r] = "done"
      /\ outcome[r] = <<Translated(local[r].err[1])>>

C1_Witness ==
  \E r \in Reqs :
    /\ local[r].err # <<>>
    /\ local[r].err[1].code = "ACCESS_DENIED"
    /\ outcome[r] # <<>>
    /\ outcome[r][1].status = 500

\* a project_create body with all four required strings
ValidProjectBody(b) ==
  /\ b.res = "some"
  /\ b.val.t = "object"
  /\ {"origin", "plan_path", "github"} \subseteq DOMAIN b.val.m
  /\ b.val.m["origin"].t = "string"
  /\ b.val.m["plan_path"].t = "string"
  /\ b.val.m["github"].t = "object"
  /\ {"organization", "repo"} \subseteq DOMAIN b.val.m["github"].m
  /\ b.val.m["github"].m["organization"].t = "string"
  /\ b.val.m["github"].m["repo"].t = "string"

ProjectPrerequisites == {"body", "repo", "OriginGet", "contents", "from_base64", "plan"}

\* C2: in project_create the ProjectCreate message is routed only when the
\* body was valid and the origin lookup, the repository lookup, the content
\* fetch, the base64 decode and the plan parse have all succeeded before;
\* once any of them has failed, no ProjectCreate is in the broker's log.
C2_CreateOnlyAfterPrerequisites ==
  \A r \in Reqs :
    handler[r] = "project_create" =>
      /\ HasMsg(r, "ProjectCreate") =>
           /\ ValidProjectBody(body[r])
           /\ \A s \in ProjectPrerequisites : Succeeded(r, s)
           /\ brokerLog[r][Len(brokerLog[r])].type = "ProjectCreate"
           /\ Len(brokerLog[r]) = 2
      /\ (\E s \in ProjectPrerequisites : Failed(r, s)) => ~HasMsg(r, "ProjectCreate")

C2_Witness ==
  \E r \in Reqs :
    /\ handler[r] = "project_create"
    /\ HasMsg(r, "ProjectCreate")
    /\ pc[r] = "done"
    /\ outcome[r][1].status = 201
\* C3 as stated: after a failed origin lookup the response is the
\* translated error and no call of the external API has been made.
C3_NoExternalCallOnOriginFailure ==
  \A r \in Reqs :
    (handler[r] = "project_create" /\ Failed(r, "OriginGet")) =>
      /\ pc[r] = "done"
      /\ outcome[r] = <<Translated(local[r].err[1])>>
      /\ extLog[r] = <<>>

\* C3, amended: the repository lookup is part of the body match and comes
\* before the origin lookup.  After a failed origin lookup the response is
\* the translated error, the one external call made is the repository
\* lookup that succeeded before it, and neither the content fetch nor
\* ProjectCreate follows; the content fetch is made only after the origin
\* lookup succeeded.
C3_OriginFailureStopsPipeline ==
  \A r \in Reqs :
    handler[r] = "project_create" =>
      /\ Failed(r, "OriginGet") =>
           /\ pc[r] = "done"
           /\ outcome[r] = <<Translated(local[r].err[1])>>
           /\ Len(extLog[r]) = 1 /\ extLog[r][1].op = "repo"
           /\ Succeeded(r, "repo")
           /\ ~HasExt(r, "contents")
           /\ ~HasMsg(r, "ProjectCreate")
      /\ HasMsg(r, "OriginGet") => Succeeded(r, "repo")
      /\ HasExt(r, "contents") => Succeeded(r, "OriginGet")

C3_Witness ==
  \E r \in Reqs :
    /\ handler[r] = "project_create"
    /\ Failed(r, "OriginGet")
    /\ local[r].err # <<>> /\ local[r].err[1].code = "ENTITY_NOT_FOUND"
    /\ outcome[r] # <<>> /\ outcome[r][1].status = 404

IdHandlers == {"job_show", "project_show", "project_delete", "project_update",
               "accept_invitation"}

\* a decimal integer: an optional sign +, then digits only
IsU64Literal(s) ==
  LET d == IF Len(s) > 0 /\ s[1] = "+" THEN SubSeq(s, 2, Len(s)) ELSE s
  IN  Len(d) > 0 /\ \A i \in 1..Len(d) : d[i] \in Digits

BadRequestNoBody == [status |-> 400, body |-> [kind |-> "empty"], headers |-> <<>>]

\* the request has been answered 400 without touching the broker
Rejected(r) ==
  /\ pc[r] = "done"
  /\ outcome[r] = <<BadRequestNoBody>>
  /\ brokerLog[r] = <<>>
  /\ connects[r] = 0

NonNumericId(r) == param[r] # <<>> /\ ~IsU64Literal(param[r][1])

AuthHandlers == {"job_create", "list_account_invitations", "list_user_origins",
                 "accept_invitation", "project_create", "project_delete", "project_update"}

\* C5: an authenticated handler run without a session never gets as far as
\* Broker::connect: no connection is asked for or held and no message is
\* routed, whatever the path parameter and the body are.
C5_NoSessionNoBroker ==
  \A r \in Reqs :
    (handler[r] \in AuthHandlers /\ session[r] = <<>>) =>
      /\ pc[r] \in {"start", "done", "panicked"}
      /\ connects[r] = 0
      /\ conn[r] = "none"
      /\ brokerLog[r] = <<>>

C5_Witness ==
  \E r \in Reqs :
    /\ handler[r] = "project_update"
    /\ session[r] = <<>>
    /\ param[r] # <<>>
    /\ pc[r] = "panicked"
    /\ Failed(r, "session")

RequiredFields == <<"origin", "plan_path", "github", "github.organization", "github.repo">>

HasString(m, k) == k \in DOMAIN m /\ m[k].t = "string"

\* the required fields a JSON value lacks or mistypes
Lacking(v) ==
  LET obj == v.t = "object"
      gh == obj /\ "github" \in DOMAIN v.m /\ v.m["github"].t = "object"
  IN  {i \in 1..5 :
         \/ i = 1 /\ ~(obj /\ HasString(v.m, "origin"))
         \/ i = 2 /\ ~(obj /\ HasString(v.m, "plan_path"))
         \/ i = 3 /\ ~gh
         \/ i = 4 /\ ~(gh /\ HasString(v.m["github"].m, "organization"))
         \/ i = 5 /\ ~(gh /\ HasString(v.m["github"].m, "repo"))}

MissingMessage(field) ==
  CASE field = "origin" -> "Missing required field: origin"
    [] field = "plan_path" -> "Missing required field: plan_path"
    [] field = "github" -> "Missing required field: github"
    [] field = "github.organization" -> "Missing required field: github.organization"
    [] field = "github.repo" -> "Missing required field: github.repo"

FirstLacking(v) == RequiredFields[CHOOSE i \in Lacking(v) : \A j \in Lacking(v) : i <= j]

\* C6: a project_create body that lacks or mistypes a required field makes
\* no broker call and no external call, and on a request with a session it
\* is answered 400 with the message naming the field (the first one, when
\* several are lacking); a job_create body without a string project_id is
\* answered 400 and makes no broker call.
C6_BodyValidationIsLocal ==
  \A r \in Reqs :
    /\ (handler[r] = "project_create" /\ body[r].res = "some" /\ Lacking(body[r].val) # {}) =>
         /\ brokerLog[r] = <<>> /\ extLog[r] = <<>> /\ connects[r] = 0
         /\ (session[r] # <<>> /\ pc[r] # "start") =>
              /\ pc[r] = "done"
              /\ outcome[r] =
                   <<[status |-> 400,
                      body |-> [kind |-> "text",
                                text |-> MissingMessage(FirstLacking(body[r].val))],
                      headers |-> <<>>]>>
    /\ (/\ handler[r] = "job_create"
        /\ ~(/\ body[r].res = "some"
             /\ body[r].val.t = "object"
             /\ HasString(body[r].val.m, "project_id"))) =>
         /\ brokerLog[r] = <<>> /\ connects[r] = 0
         /\ pc[r] # "start" => pc[r] = "done" /\ outcome[r] = <<BadRequestNoBody>>

C6_Witness ==
  \E r \in Reqs :
    /\ handler[r] = "project_create"
    /\ session[r] # <<>>
    /\ body[r].res = "some"
    /\ Lacking(body[r].val) = {2}
    /\ pc[r] = "done"
    /\ outcome[r][1].body = [kind |-> "text", text |-> "Missing required field: plan_path"]

Stages == {"repo", "contents", "from_base64", "plan"}

StageTag(stage) ==
  CASE stage = "repo" -> "rg:pc:1"
    [] stage = "contents" -> "rg:pc:2"
    [] stage = "plan" -> "rg:pc:3"
    [] stage = "from_base64" -> "rg:pc:4"

StageResponse(stage) ==
  [status |-> 400, body |-> [kind |-> "text", text |-> StageTag(stage)], headers |-> <<>>]

\* C7: a project_create that fails in the repository lookup, the content
\* fetch, the base64 decode or the plan parse is answered with the fixed
\* 400 of that stage; the four responses differ from each other, and no
\* request that ends otherwise (a body rejected, the origin lookup or the
\* create failed, success) gets one of them.
C7_StageOutcomesDistinct ==
  /\ \A s, t \in Stages : s # t => StageResponse(s) # StageResponse(t)
  /\ \A r \in Reqs :
       (handler[r] = "project_create" /\ pc[r] = "done") =>
         /\ \A s \in Stages : Failed(r, s) => outcome[r] = <<StageResponse(s)>>
         /\ (\A s \in Stages : ~Failed(r, s)) =>
              outcome[r][1] \notin {StageResponse(s) : s \in Stages}

C7_Witness ==
  \E r \in Reqs :
    /\ handler[r] = "project_create"
    /\ Failed(r, "from_base64")
    /\ pc[r] = "done"
    /\ outcome[r] = <<StageResponse("from_base64")>>

\* the account a broker message names as the one acting
IdentityOf(msg) ==
  CASE msg.type = "OriginInvitationAcceptRequest" -> <<msg.account_accepting_request>>
    [] msg.type \in {"ProjectDelete", "ProjectUpdate"} -> <<msg.requestor_id>>
    [] msg.type = "JobSpec" -> <<msg.owner_id>>
    [] msg.type = "ProjectCreate" -> msg.owner_id
    [] msg.type \in {"AccountInvitationListRequest", "AccountOriginListRequest"} ->
         <<msg.account_id>>

IdentityTypes == {"OriginInvitationAcceptRequest", "ProjectDelete", "ProjectUpdate", "JobSpec",
                  "ProjectCreate", "AccountInvitationListRequest", "AccountOriginListRequest"}

\* C8: every message with an identity field that an authenticated handler
\* routes names the account of the request's session, whatever the path
\* parameter and the body hold.
C8_IdentityIsSession ==
  \A r \in Reqs :
    (handler[r] \in AuthHandlers /\ brokerLog[r] # <<>>) =>
      /\ session[r] # <<>>
      /\ \A i \in 1..Len(brokerLog[r]) :
           brokerLog[r][i].type \in IdentityTypes =>
             IdentityOf(brokerLog[r][i]) = <<session[r][1].id>>

C8_Witness ==
  \E r \in Reqs :
    /\ handler[r] = "accept_invitation"
    /\ brokerLog[r] # <<>>
    /\ brokerLog[r][1].invite_id # session[r][1].id
    /\ brokerLog[r][1].account_accepting_request = session[r][1].id

\* C9: in job_create a failed ProjectGet is rendered at once and is the
\* only message routed; JobSpec is routed only after ProjectGet succeeded,
\* as the second message, and carries the project ProjectGet returned.
C9_JobSpecAfterProjectGet ==
  \A r \in Reqs :
    handler[r] = "job_create" =>
      /\ Failed(r, "ProjectGet") =>
           /\ pc[r] = "done"
           /\ outcome[r] = <<Translated(local[r].err[1])>>
           /\ Len(brokerLog[r]) = 1 /\ brokerLog[r][1].type = "ProjectGet"
      /\ HasMsg(r, "JobSpec") =>
           /\ Succeeded(r, "ProjectGet")
           /\ Len(brokerLog[r]) = 2
           /\ brokerLog[r][1].type = "ProjectGet"
           /\ brokerLog[r][2].type = "JobSpec"
           /\ local[r].project # <<>>
           /\ brokerLog[r][2].project = local[r].project[1]

C9_Witness ==
  \E r \in Reqs :
    /\ handler[r] = "job_create"
    /\ HasMsg(r, "JobSpec")
    /\ brokerLog[r][2].project.id # brokerLog[r][1].id

\* C10 as stated: a failed Broker::connect ends the request with a 500
\* response, never with a panic.
C10_ConnectFailureIs500 ==
  \A r \in Reqs :
    Failed(r, "connect") =>
      /\ pc[r] = "done"
      /\ outcome[r] # <<>>
      /\ outcome[r][1].status = 500

\* C11 as stated: every invocation (authenticated handlers taken with their
\* session attached) ends by returning a response, exactly one, whatever the
\* inputs and the results of the broker and external steps are: no
\* invocation ends without a response and none holds a response before it
\* has ended.
C11_ExactlyOneOutcome ==
  \A r \in Reqs :
    (handler[r] \in AuthHandlers => session[r] # <<>>) =>
      /\ pc[r] # "panicked"
      /\ Len(outcome[r]) <= 1
      /\ pc[r] = "done" <=> Len(outcome[r]) = 1

MutatingTypes == {"SessionCreate", "JobSpec", "ProjectCreate", "ProjectDelete",
                  "ProjectUpdate", "OriginInvitationAcceptRequest"}

ReadTypes == {"ProjectGet", "OriginGet", "JobGet", "AccountInvitationListRequest",
              "AccountOriginListRequest"}

MaxCalls(h) == IF h \in {"job_create", "project_create"} THEN 2 ELSE 1

\* C12: within one request at most one mutating message is routed, no
\* message is routed twice and nothing is routed after a failed call (the
\* failed call is the last one and the request is over); job_create and
\* project_create route at most two messages, a read and then a write,
\* every other handler at most one.
C12_AtMostOneWriteNoRetry ==
  \A r \in Reqs :
    LET log == brokerLog[r]
    IN  /\ Len(log) <= MaxCalls(handler[r])
        /\ Cardinality({i \in 1..Len(log) : log[i].type \in MutatingTypes}) <= 1
        /\ \A i, j \in 1..Len(log) : i < j => log[i].type # log[j].type
        /\ Len(log) = 2 => log[1].type \in ReadTypes /\ log[2].type \in MutatingTypes
        /\ \A t \in MutatingTypes \cup ReadTypes :
             Failed(r, t) => /\ pc[r] = "done"
                             /\ log[Len(log)].type = t
                             /\ ~Succeeded(r, t)

C12_Witness ==
  \E r \in Reqs :
    /\ handler[r] = "job_create"
    /\ Failed(r, "JobSpec")
    /\ Len(brokerLog[r]) = 2
    /\ pc[r] = "done"

\* C13: when job_show or project_show has answered the same request twice
\* against an unchanged backend, each invocation has made its own
\* connection and routed its own message (nothing is answered from a
\* cache), the two messages are equal, and the two responses are equal.
C13_ReadsRepeat ==
  \A r, q \in Twice :
    (/\ r # q
     /\ handler[r] \in ReadOnlyHandlers
     /\ pc[r] = "done" /\ pc[q] = "done") =>
      /\ outcome[r] = outcome[q]
      /\ Succeeded(r, "param") =>
           /\ connects[r] = 1
           /\ Len(brokerLog[r]) = 1
           /\ brokerLog[r] = brokerLog[q]
           /\ Answered(r)
      /\ Failed(r, "param") => brokerLog[r] = <<>>

C13_Witness ==
  \E r, q \in Twice :
    /\ r # q
    /\ handler[r] = "job_show" /\ handler[q] = "job_show"
    /\ pc[r] = "done" /\ pc[q] = "done"
    /\ Len(brokerLog[r]) = 1 /\ Len(brokerLog[q]) = 1
    /\ outcome[r][1].status = 404 /\ outcome[q][1].status = 404

ReadHandlers == {"job_show", "project_show", "list_account_invitations",
                 "list_user_origins"}

CreateHandlers == {"job_create", "project_create"}

NoBodyHandlers == {"project_delete", "project_update", "accept_invitation"}

SuccessStatuses == {200, 201, 204}

AllStepsOk(r) == \A i \in 1..Len(steps[r]) : steps[r][i].ok

\* C14: a handler that returns after all its steps succeeded answers 200
\* with the JSON of the reply for the reads, 201 with the JSON of the
\* created resource for job_create and project_create, and 204 with no body
\* and no content type for project_delete, project_update and
\* accept_invitation; a handler that returns after a step failed answers
\* none of 200, 201, 204.
C14_SuccessStatusByKind ==
  \A r \in Reqs :
    (handler[r] \in ReadHandlers \cup CreateHandlers \cup NoBodyHandlers /\ pc[r] = "done") =>
      IF AllStepsOk(r)
        THEN /\ local[r].reply # <<>>
             /\ handler[r] \in ReadHandlers =>
                  outcome[r] = <<[status |-> 200,
                                  body |-> [kind |-> "json", val |-> local[r].reply[1]],
                                  headers |-> <<"application/json">>]>>
             /\ handler[r] \in CreateHandlers =>
                  outcome[r] = <<[status |-> 201,
                                  body |-> [kind |-> "json", val |-> local[r].reply[1]],
                                  headers |-> <<"application/json">>]>>
             /\ handler[r] \in NoBodyHandlers =>
                  outcome[r] = <<[status |-> 204, body |-> [kind |-> "empty"],
                                  headers |-> <<>>]>>
        ELSE outcome[r][1].status \notin SuccessStatuses

C14_Witness ==
  \E r \in Reqs :
    /\ handler[r] = "job_create"
    /\ pc[r] = "done"
    /\ AllStepsOk(r)
    /\ outcome[r][1].status = 201

\* the calls of the external source-control API
ExternalSteps == {"authenticate", "user", "emails", "repo", "contents"}

\* C15 as stated: two invocations of session_create, or of project_create,
\* on the same request whose external call fails at the same step return
\* the same response, whatever the two third-party errors hold.
C15_ExternalFailureOpaque ==
  \A r, q \in Twice :
    \A stage \in ExternalSteps :
      (/\ handler[r] \in {"session_create", "project_create"}
       /\ Failed(r, stage) /\ Failed(q, stage)) =>
        /\ pc[r] = "done" /\ pc[q] = "done"
        /\ outcome[r] = outcome[q]

\* C16 as stated, for an account without e-mail: when the e-mail fetch of
\* session_create fails or returns an empty list, the handler returns the
\* rendered ACCESS_DENIED error and no message is routed.  (The choice
\* among the e-mails of a non-empty list is FindPrimary and UnwrapOr.)
C16_NoEmailIsAccessDenied ==
  \A r \in Reqs :
    (handler[r] = "session_create" /\ (Failed(r, "emails") \/ Failed(r, "emails[0]"))) =>
      /\ pc[r] = "done"
      /\ outcome[r] = <<Translated(NetErr("ACCESS_DENIED", "rg:auth:0"))>>
      /\ brokerLog[r] = <<>>

\* the calls session_create makes, in the order of the pipeline
SessionPipeline == <<"authenticate", "user", "emails">>

\* the number of external calls made when the given step of session_create
\* has failed
CallsUpTo(stage) ==
  CASE stage = "param" -> 0
    [] stage = "authenticate" -> 1
    [] stage = "user" -> 2
    [] stage \in {"emails", "SessionCreate"} -> 3

\* C17: session_create calls authenticate, user, emails and then routes
\* SessionCreate, in this order, each only after every earlier step
\* succeeded; a step that failed is the last step taken, and when it is one
\* of code-param, authenticate, user, emails, SessionCreate the response is
\* returned at once, an error status, with exactly the calls before it made;
\* SessionCreate carries the token authenticate returned and the id and
\* login user returned.
C17_SessionPipeline ==
  \A r \in Reqs :
    handler[r] = "session_create" =>
      /\ Len(extLog[r]) <= 3
      /\ \A i \in 1..Len(extLog[r]) : extLog[r][i].op = SessionPipeline[i]
      /\ HasExt(r, "authenticate") => Succeeded(r, "param")
      /\ HasExt(r, "user") =>
           /\ Succeeded(r, "authenticate")
           /\ extLog[r][2].token = local[r].token[1]
      /\ HasExt(r, "emails") =>
           /\ Succeeded(r, "user")
           /\ extLog[r][3].token = local[r].token[1]
      /\ \A i \in 1..Len(steps[r]) :
           ~steps[r][i].ok => (i = Len(steps[r]) /\ Final(r))
      /\ \A stage \in {"param", "authenticate", "user", "emails", "SessionCreate"} :
           Failed(r, stage) =>
             /\ pc[r] = "done"
             /\ outcome[r] # <<>>
             /\ outcome[r][1].status \notin SuccessStatuses
             /\ Len(extLog[r]) = CallsUpTo(stage)
             /\ brokerLog[r] # <<>> <=> stage = "SessionCreate"
      /\ brokerLog[r] # <<>> =>
           /\ Succeeded(r, "emails") /\ Succeeded(r, "emails[0]")
           /\ Succeeded(r, "connect")
           /\ Len(extLog[r]) = 3
           /\ Len(brokerLog[r]) = 1
           /\ brokerLog[r][1].type = "SessionCreate"
           /\ brokerLog[r][1].token = local[r].token[1]
           /\ brokerLog[r][1].extern_id = local[r].user[1].id
           /\ brokerLog[r][1].name = local[r].user[1].login
           /\ brokerLog[r][1].email = local[r].email[1]

C17_Witness ==
  \E r \in Reqs :
    /\ handler[r] = "session_create"
    /\ pc[r] = "done"
    /\ Succeeded(r, "SessionCreate")
    /\ brokerLog[r][1].token = "gho_2"
    /\ brokerLog[r][1].name = "bob"

\* C18 as stated: an authenticated handler run without a session ends in a
\* panic and returns no response, whatever the path parameter and the body
\* are.
C18_NoSessionAlwaysAborts ==
  \A r \in Reqs :
    (handler[r] \in AuthHandlers /\ session[r] = <<>> /\ Final(r)) =>
      /\ pc[r] = "panicked"
      /\ outcome[r] = <<>>

\* the input a handler validates before it looks the session up is
\* malformed: the body of job_create, the id of project_delete and of
\* project_update
InvalidBeforeSession(r) ==
  CASE handler[r] = "job_create" ->
         body[r].res # "some" \/ ~IsJString(Find(body[r].val, "project_id"))
    [] handler[r] = "project_delete" ->
         param[r] = <<>> \/ ParseProjectDeleteId(param[r][1]) = <<>>
    [] handler[r] = "project_update" -> param[r] = <<>>
    [] OTHER -> FALSE

\* C18, amended: an authenticated handler run without a session ends in a
\* panic and returns no response, except that job_create with a malformed
\* body and project_delete and project_update with a missing or unparsable
\* id answer 400 with no body, their validation coming before the session
\* lookup; list_account_invitations, list_user_origins, accept_invitation
\* and project_create panic whatever the path parameter and the body are.
C18_NoSessionAbortsAfterValidation ==
  \A r \in Reqs :
    (handler[r] \in AuthHandlers /\ session[r] = <<>> /\ Final(r)) =>
      IF InvalidBeforeSession(r)
        THEN /\ pc[r] = "done"
             /\ outcome[r] = <<BadRequestNoBody>>
             /\ ~Failed(r, "session")
        ELSE /\ pc[r] = "panicked"
             /\ outcome[r] = <<>>
             /\ Failed(r, "session")

C18_Witness ==
  \E r \in Reqs :
    /\ handler[r] = "job_create"
    /\ session[r] = <<>>
    /\ body[r].res = "some"
    /\ InvalidBeforeSession(r)
    /\ pc[r] = "done"
    /\ outcome[r][1].status = 400

\* the checks a handler makes on the request itself
LocalValidation(h) ==
  CASE h \in {"session_create", "job_show", "project_show"} -> {"param"}
    [] h \in {"job_create", "project_create"} -> {"body", "session"}
    [] h \in {"list_account_invitations", "list_user_origins"} -> {"session"}
    [] h \in {"accept_invitation", "project_delete", "project_update"} -> {"param", "session"}
    [] OTHER -> {}

\* C19: a handler connects to the broker at most once in a request, and
\* only after every check on the request itself passed and no step before
\* failed; every message of the request goes through this one connection;
\* the connection is held only while the handler runs: once the handler has
\* returned or unwound, on whatever path, it is dropped.
C19_ConnectionScoped ==
  \A r \in Reqs :
    /\ connects[r] <= 1
    /\ connects[r] = 1 =>
         /\ \A name \in LocalValidation(handler[r]) : Succeeded(r, name)
         /\ \A i \in 1..Len(steps[r]) :
              (steps[r][i].step = "connect" /\ i > 1) => steps[r][i - 1].ok
    /\ conn[r] = "held" =>
         /\ ~Final(r) /\ pc[r] # "idle"
         /\ connects[r] = 1
         /\ Succeeded(r, "connect")
    /\ Final(r) =>
         conn[r] = IF Succeeded(r, "connect") THEN "dropped" ELSE "none"
    /\ brokerLog[r] # <<>> => (connects[r] = 1 /\ Succeeded(r, "connect"))
    /\ pc[r] = "idle" => (conn[r] = "none" /\ connects[r] = 0)

C19_Witness ==
  \E r \in Reqs :
    /\ handler[r] = "project_create"
    /\ Failed(r, "contents")
    /\ pc[r] = "done"
    /\ Len(brokerLog[r]) = 1
    /\ connects[r] = 1
    /\ conn[r] = "dropped"

\* the messages a request of the concurrent handlers routes when handled
\* alone
AloneMessages(r) ==
  CASE handler[r] = "list_account_invitations" ->
         <<[type |-> "AccountInvitationListRequest", account_id |-> session[r][1].id]>>
    [] handler[r] = "accept_invitation" ->
         <<[type |-> "OriginInvitationAcceptRequest",
            account_accepting_request |-> session[r][1].id,
            invite_id |-> ParseU64(param[r][1])[1],
            ignore |-> FALSE]>>

\* the response a request of the concurrent handlers gets when handled
\* alone, from the reply or the error its own route call got
AloneOutcome(r) ==
  IF local[r].err # <<>> THEN <<Translated(local[r].err[1])>>
  ELSE IF local[r].reply = <<>> THEN <<>>
  ELSE IF handler[r] = "list_account_invitations"
    THEN <<[status |-> 200,
            body |-> [kind |-> "json", val |-> local[r].reply[1]],
            headers |-> <<"application/json">>]>>
    ELSE <<[status |-> 204, body |-> [kind |-> "empty"], headers |-> <<>>]>>

\* C20: with any number of requests in flight and their steps interleaved
\* in any order, the messages of each request are the ones it routes when
\* handled alone, naming its own session's account and its own invitation
\* id, and its response is the one it gets alone for the reply or error its
\* own call got; a request ends without response only when its own connect
\* failed.
C20_NoInterference ==
  \A r \in Reqs :
    handler[r] \in ConcHandlers =>
      /\ brokerLog[r] \in {<<>>, AloneMessages(r)}
      /\ outcome[r] = AloneOutcome(r)
      /\ Answered(r) <=> pc[r] = "done"
      /\ Answered(r) => brokerLog[r] # <<>>
      /\ pc[r] = "panicked" <=> Failed(r, "connect")

C20_Witness ==
  \E r, q \in Reqs :
    /\ r # q
    /\ handler[r] = "list_account_invitations" /\ handler[q] = "accept_invitation"
    /\ pc[r] = "done" /\ pc[q] = "done"
    /\ session[r] # session[q]
    /\ brokerLog[r][1].account_id = session[r][1].id
    /\ brokerLog[q][1].account_accepting_request = session[q][1].id
    /\ outcome[r][1].status = 200 /\ outcome[q][1].status = 409

====
